---- MODULE Spec2Model ----
(***************************************************************************)
(* Model of src/metrics.cc: the Metrics singleton of the inference server. *)
(*                                                                         *)
(*   Metrics::Initialize            lines 105-120                          *)
(*   Metrics::InitializeNvmlMetrics lines 122-258 (enumeration and the     *)
(*                                  NVML sampling thread it starts)        *)
(*   Metrics::~Metrics              lines  96-103                          *)
(*                                                                         *)
(* Values held by metric instances are fixed-point numbers in thousandths  *)
(* of the registry unit: (double)x * 0.001 is x thousandths, and           *)
(* (double)x * 0.01 is 10 * x thousandths.                                 *)
(***************************************************************************)
EXTENDS Integers, Sequences, FiniteSets, TLC

\* ------------------------------------------------------------------ bounds

\* Largest device count nvmlDeviceGetCount reports in Spec.
MaxDevices == 2
\* Sampling cycles the thread runs in Spec before the model stops it.
MaxCycles == 2
\* Sampling cycles in SpecEnergy (single device, free energy readings).
MaxEnergyCycles == 3
\* Failing NVML calls inside the sampling thread, per run.
MaxFaults == 1
\* Width of `unsigned long long` in the model (64 in the build).
EnergyBits == 16

EnergyModulus == 2 ^ EnergyBits

\* --------------------------------------------------------------- constants

Callers == {"a", "b"}
\* The port each caller passes to Initialize.
PortOf(c) == IF c = "a" THEN 8002 ELSE 9002
NoExposer == 0

\* Family names, lines 76-92.
FamUtilization == "nv_gpu_utilization"
FamPowerUsage == "nv_gpu_power_usage"
FamPowerLimit == "nv_gpu_power_limit"
FamEnergy == "nv_energy_consumption"
GpuFamilies == {FamUtilization, FamPowerUsage, FamPowerLimit, FamEnergy}

\* The UUID the backend reports for device index d (unique per device).
BackendUUID(d) == "GPU-" \o ToString(d)
UnknownUUID == "unknown"

\* Results of one backend query as the sampling cycle saw it.
NotQueried == [st |-> "none", v |-> 0]
Failed == [st |-> "fail", v |-> 0]
Ok(v) == [st |-> "ok", v |-> v]
NoSample == [handle |-> NotQueried, limit |-> NotQueried, usage |-> NotQueried,
             energy |-> NotQueried, util |-> NotQueried]

VARIABLES
  exposer_,                  \* port the Exposer is bound to, NoExposer if null
  ipc,                       \* per caller: position inside Initialize
  registry_,                 \* GPU family name -> (gpu_uuid label -> value)
  gpu_utilization_,          \* the four vectors of instance pointers; an
  gpu_power_usage_,          \* instance is named by its family and label
  gpu_power_limit_,
  gpu_energy_consumption_,
  nvml_thread_,              \* FALSE = nullptr, TRUE = a thread object
  nvml_thread_exit_,         \* the atomic stop flag
  dcnt,                      \* device count captured by the thread's lambda
  tpc,                       \* position of the sampling thread
  didx,                      \* loop index of the sampling thread
  last_energy,               \* the thread's local array
  dpc,                       \* position of ~Metrics
  cycles,                    \* sampling cycles started
  faults,                    \* failing NVML calls issued by the thread
  enum,                      \* ghost: what the backend answered to enumeration
  sample,                    \* ghost: backend results of the current cycle
  energyReads,               \* ghost: per device, successful energy readings
  energyIncs,                \* ghost: per device, deltas passed to Increment
  energyMissed,                 \* ghost: per device, the last energy query failed
  resolve,                   \* a caller of UUIDForCudaDevice and its string
  svc,                       \* a service-wide counter and its writers
  hist                       \* ghost: counters of one-off events

vectors == <<gpu_utilization_, gpu_power_usage_, gpu_power_limit_,
             gpu_energy_consumption_>>
threadvars == <<nvml_thread_exit_, dcnt, tpc, didx, last_energy, cycles, faults,
                sample, energyReads, energyIncs, energyMissed>>
apivars == <<resolve, svc>>
vars == <<exposer_, ipc, registry_, vectors, nvml_thread_, threadvars, dpc,
          enum, hist, apivars>>

\* ----------------------------------------------------------------- helpers

\* (double)x * 0.001 and (double)x * 0.01, in thousandths.
Scale001(x) == x
Scale01(x) == 10 * x

\* prometheus::Family<T>::Add: the instance for a label set, created at 0 if new.
FamilyAdd(fam, label) ==
  IF label \in DOMAIN fam THEN fam ELSE fam @@ (label :> 0)

\* Nobody has called UUIDForCudaDevice; the caller's string is empty.
NoCode == 0
NoResolve == [pc |-> "idle", dev |-> 0, out |-> "", before |-> "",
              ret |-> [ok |-> FALSE, code |-> NoCode], log |-> NoCode,
              failed |-> NoCode, calls |-> 0]

\* The writers of the service-wide counter.
Writers == {"w1", "w2"}
NoCounter == [value |-> 0, applied |-> <<>>,
              pc |-> [w \in Writers |-> "idle"],
              d |-> [w \in Writers |-> 0],
              seen |-> [w \in Writers |-> 0],
              calls |-> [w \in Writers |-> 0],
              snap |-> 0, snapAt |-> 0, total |-> 0]

NoEnum == [ran |-> FALSE, by |-> "", init |-> FALSE, count |-> FALSE, n |-> 0,
           handle |-> <<>>, uuid |-> <<>>]

Init ==
  /\ exposer_ = NoExposer
  /\ ipc = [c \in Callers |-> "idle"]
  /\ registry_ = [f \in GpuFamilies |-> <<>>]
  /\ gpu_utilization_ = <<>>
  /\ gpu_power_usage_ = <<>>
  /\ gpu_power_limit_ = <<>>
  /\ gpu_energy_consumption_ = <<>>
  /\ nvml_thread_ = FALSE
  /\ nvml_thread_exit_ = FALSE
  /\ dcnt = 0
  /\ tpc = "none"
  /\ didx = 0
  /\ last_energy = <<>>
  /\ dpc = "idle"
  /\ cycles = 0
  /\ faults = 0
  /\ enum = NoEnum
  /\ sample = <<>>
  /\ energyReads = <<>>
  /\ energyIncs = <<>>
  /\ energyMissed = <<>>
  /\ resolve = NoResolve
  /\ svc = NoCounter
  /\ hist = [enumRuns |-> 0, threads |-> 0, binds |-> 0, noops |-> 0,
             stopMid |-> FALSE, stopCycle |-> 0, ub |-> FALSE]

\* ------------------------------------------------------------- environment
\* What the surroundings of the program may do in a specification:
\*   counts    device counts nvmlDeviceGetCount may report
\*   limits, usages, utils   per device index, values the backend may return
\*   readings  per cycle number, cumulative energy readings it may return
\*   maxCycles cycles after which the model stops the thread
\*   overlap   whether Initialize calls may overlap in time

DeviceIdx == 0 .. MaxDevices

SpecEnv ==
  [counts |-> 0 .. MaxDevices,
   limits |-> [d \in DeviceIdx |-> {250000 + 10000 * d}],
   usages |-> [d \in DeviceIdx |-> {120000 + 10000 * d}],
   utils |-> [d \in DeviceIdx |-> {40 + 10 * d}],
   readings |-> [k \in 1 .. MaxCycles + 1 |-> {2000 * k}],
   maxCycles |-> MaxCycles,
   overlap |-> FALSE]

EnergyEnv ==
  [counts |-> {1},
   limits |-> [d \in DeviceIdx |-> {250000}],
   usages |-> [d \in DeviceIdx |-> {120000}],
   utils |-> [d \in DeviceIdx |-> {40}],
   readings |-> [k \in 1 .. MaxEnergyCycles + 1 |-> {0, 2000, 5000}],
   maxCycles |-> MaxEnergyCycles,
   overlap |-> FALSE]

\* -------------------------------------------------------------- Initialize

\* Initialize without the already-initialized test of lines 109-112.
InitializeCheck_NoTest(c, E) ==
  /\ ipc[c] = "idle"
  /\ dpc = "idle"
  /\ c = "b" => ipc["a"] # "idle"
  /\ E.overlap \/ \A o \in Callers \ {c} : ipc[o] \in {"idle", "returned"}
  /\ ipc' = [ipc EXCEPT ![c] = "nvml"]
  /\ UNCHANGED <<apivars, exposer_, registry_, vectors, nvml_thread_,
                 threadvars, dpc, enum, hist>>

\* Lines 108-112: the already-initialized test.
InitializeCheck(c, E) ==
  /\ ipc[c] = "idle"
  /\ dpc = "idle"
  /\ c = "b" => ipc["a"] # "idle"        \* callers are named in calling order
  /\ E.overlap \/ \A o \in Callers \ {c} : ipc[o] \in {"idle", "returned"}
  /\ IF exposer_ # NoExposer
       THEN /\ ipc' = [ipc EXCEPT ![c] = "returned"]
            /\ hist' = [hist EXCEPT !.noops = @ + 1]
       ELSE /\ ipc' = [ipc EXCEPT ![c] = "nvml"]
            /\ hist' = hist
  /\ UNCHANGED <<apivars, exposer_, registry_, vectors, nvml_thread_,
                 threadvars, dpc, enum>>

\* Enumeration that goes on after a failed nvmlDeviceGetCount.
NvmlAvailable_IgnoreCount(initOk, countOk) == initOk

\* Lines 125-137: enumeration goes on only if nvmlInit and nvmlDeviceGetCount
\* both succeeded.
NvmlAvailable(initOk, countOk) == initOk /\ countOk

\* A label left empty when nvmlDeviceGetUUID fails.
DeviceUUID_NoSentinel(d, uuidOk) == IF uuidOk THEN BackendUUID(d) ELSE ""

\* Lines 158-165: the gpu_uuid label of device d, given whether nvmlDeviceGetUUID
\* succeeded.
DeviceUUID(d, uuidOk) == IF uuidOk THEN BackendUUID(d) ELSE UnknownUUID

\* Lines 141-176: the enumeration loop from device index d, on the vectors and
\* families in st, with the backend's answers hOk (handle) and uOk (UUID).
RECURSIVE EnumerateFrom(_, _, _, _, _)
EnumerateFrom(d, n, hOk, uOk, st) ==
  IF d >= n THEN st
  ELSE IF ~hOk[d] THEN EnumerateFrom(d + 1, n, hOk, uOk, st)
  ELSE LET uuid == DeviceUUID(d, uOk[d])
           reg == [f \in GpuFamilies |-> FamilyAdd(st.reg[f], uuid)]
       IN EnumerateFrom(d + 1, n, hOk, uOk,
            [reg |-> reg,
             util |-> Append(st.util, uuid),
             usage |-> Append(st.usage, uuid),
             limit |-> Append(st.limit, uuid),
             energy |-> Append(st.energy, uuid)])

\* Lines 179-181: the thread is started when the reported count is positive.
StartsThread(n) == n > 0

\* Lines 122-258 on the calling thread: nvmlInit, nvmlDeviceGetCount, the
\* enumeration loop and the start of the sampling thread.
InitializeNvmlMetrics(c, E) ==
  /\ ipc[c] = "nvml"
  /\ \E initOk, countOk \in BOOLEAN, n \in E.counts :
       \E hOk, uOk \in [0 .. n - 1 -> BOOLEAN] :
         LET ok == NvmlAvailable(initOk, countOk)
             cnt == IF ok THEN n ELSE 0
             st0 == [reg |-> registry_, util |-> gpu_utilization_,
                     usage |-> gpu_power_usage_, limit |-> gpu_power_limit_,
                     energy |-> gpu_energy_consumption_]
             st == IF ok THEN EnumerateFrom(0, n, hOk, uOk, st0) ELSE st0
             start == ok /\ StartsThread(n)
         IN /\ initOk \/ ~countOk          \* no count query after a failed init
            /\ \A d \in 0 .. n - 1 : hOk[d] \/ uOk[d]   \* nor a UUID query without a handle
            /\ (initOk /\ countOk) \/ \A d \in 0 .. n - 1 : hOk[d]
            /\ enum' = [ran |-> TRUE, by |-> c, init |-> initOk,
                        count |-> countOk, n |-> cnt,
                        handle |-> [d \in 0 .. cnt - 1 |-> hOk[d]],
                        uuid |-> [d \in 0 .. cnt - 1 |-> uOk[d]]]
            /\ registry_' = st.reg
            /\ gpu_utilization_' = st.util
            /\ gpu_power_usage_' = st.usage
            /\ gpu_power_limit_' = st.limit
            /\ gpu_energy_consumption_' = st.energy
            /\ IF start
                 THEN /\ nvml_thread_exit_' = FALSE
                      /\ nvml_thread_' = TRUE
                      /\ dcnt' = n
                      /\ tpc' = IF nvml_thread_ THEN "crashed" ELSE "start"
                      /\ hist' = [hist EXCEPT !.enumRuns = @ + 1, !.threads = @ + 1]
                 ELSE /\ UNCHANGED <<nvml_thread_exit_, nvml_thread_, dcnt, tpc>>
                      /\ hist' = [hist EXCEPT !.enumRuns = @ + 1]
  /\ ipc' = [ipc EXCEPT ![c] = "expose"]
  /\ UNCHANGED <<apivars, exposer_, didx, last_energy, cycles, faults, sample,
                 energyReads, energyIncs, energyMissed, dpc>>

\* Lines 116-119: bind the Exposer to the port and register the registry.
InitializeExpose(c) ==
  /\ ipc[c] = "expose"
  /\ exposer_' = PortOf(c)
  /\ ipc' = [ipc EXCEPT ![c] = "returned"]
  /\ hist' = [hist EXCEPT !.binds = @ + 1]
  /\ UNCHANGED <<apivars, registry_, vectors, nvml_thread_, threadvars, dpc,
                 enum>>

\* --------------------------------------------------------- sampling thread

\* instance->Set(v) and instance->Increment(v) on the instance labelled l.
SetAt(fam, l, v) == [fam EXCEPT ![l] = v]
IncrementAt(fam, l, v) == [fam EXCEPT ![l] = @ + v]
Apply(kind, fam, l, v) ==
  IF kind = "set" THEN SetAt(fam, l, v) ELSE IncrementAt(fam, l, v)

\* vec[i]->Set(v) / vec[i]->Increment(v) for a std::vector of instance pointers
\* (lines 207, 219, 234, 249). operator[] is unchecked: past the end the
\* behaviour is undefined: the build may crash there, or read a stray pointer
\* and write to memory the model does not hold.
WriteThrough(kind, fam, vec, i, v) ==
  IF i < Len(vec)
    THEN {[fam |-> Apply(kind, fam, vec[i + 1], v), crash |-> FALSE, ub |-> FALSE]}
    ELSE {[fam |-> fam, crash |-> TRUE, ub |-> TRUE],
          [fam |-> fam, crash |-> FALSE, ub |-> TRUE]}

\* The outcomes of one NVML query in the thread: a value, or a failure while
\* the run's fault budget lasts.
Query(values) ==
  {Ok(v) : v \in values} \cup (IF faults < MaxFaults THEN {Failed} ELSE {})

CountFault(r) == IF r.st = "fail" THEN faults + 1 ELSE faults

\* Position after the body of device didx: the next device, or the loop test.
NextDevice ==
  IF didx + 1 < dcnt
    THEN /\ didx' = didx + 1
         /\ tpc' = "handle"
    ELSE /\ didx' = didx
         /\ tpc' = "check"

\* Lines 182-185: the thread's local last_energy array, zeroed.
ThreadStart ==
  /\ tpc = "start"
  /\ last_energy' = [d \in 0 .. dcnt - 1 |-> 0]
  /\ sample' = [d \in 0 .. dcnt - 1 |-> NoSample]
  /\ energyReads' = [d \in 0 .. dcnt - 1 |-> <<>>]
  /\ energyIncs' = [d \in 0 .. dcnt - 1 |-> <<>>]
  /\ energyMissed' = [d \in 0 .. dcnt - 1 |-> FALSE]
  /\ tpc' = "check"
  /\ UNCHANGED <<apivars, exposer_, ipc, registry_, vectors, nvml_thread_,
                 nvml_thread_exit_, dcnt, didx, cycles, faults, dpc, enum,
                 hist>>

\* A loop that leaves without having been asked to.
ThreadCheck_ExitsUnasked(E) ==
  /\ tpc = "check"
  /\ tpc' = "exit"
  /\ UNCHANGED <<apivars, exposer_, ipc, registry_, vectors, nvml_thread_,
                 nvml_thread_exit_, dcnt, didx, last_energy, cycles, faults,
                 sample, energyReads, energyIncs, energyMissed, dpc, enum, hist>>

\* A loop that does not read the stop flag.
ThreadCheck_IgnoresFlag(E) ==
  /\ tpc = "check"
  /\ cycles < E.maxCycles
  /\ tpc' = "sleep"
  /\ UNCHANGED <<apivars, exposer_, ipc, registry_, vectors, nvml_thread_,
                 nvml_thread_exit_, dcnt, didx, last_energy, cycles, faults,
                 sample, energyReads, energyIncs, energyMissed, dpc, enum, hist>>

\* Line 187: the loop test on the stop flag.
ThreadCheck(E) ==
  /\ tpc = "check"
  /\ IF nvml_thread_exit_
       THEN tpc' = "exit"
       ELSE /\ cycles < E.maxCycles
            /\ tpc' = "sleep"
  /\ UNCHANGED <<apivars, exposer_, ipc, registry_, vectors, nvml_thread_,
                 nvml_thread_exit_, dcnt, didx, last_energy, cycles, faults,
                 sample, energyReads, energyIncs, energyMissed, dpc, enum, hist>>

\* Lines 188-190: the sleep, then the device loop starts at index 0.
ThreadSleep ==
  /\ tpc = "sleep"
  /\ cycles' = cycles + 1
  /\ didx' = 0
  /\ sample' = [d \in 0 .. dcnt - 1 |-> NoSample]
  /\ tpc' = "handle"
  /\ UNCHANGED <<apivars, exposer_, ipc, registry_, vectors, nvml_thread_,
                 nvml_thread_exit_, dcnt, last_energy, faults, energyReads,
                 energyIncs, energyMissed, dpc, enum, hist>>

\* Lines 191-196: nvmlDeviceGetHandleByIndex; on failure the device is skipped.
ThreadHandle ==
  /\ tpc = "handle"
  /\ \E r \in Query({0}) :
       /\ sample' = [sample EXCEPT ![didx].handle = r]
       /\ faults' = CountFault(r)
       /\ IF r.st = "ok"
            THEN /\ tpc' = "limit"
                 /\ didx' = didx
            ELSE NextDevice
  /\ UNCHANGED <<apivars, exposer_, ipc, registry_, vectors, nvml_thread_,
                 nvml_thread_exit_, dcnt, last_energy, cycles, energyReads,
                 energyIncs, energyMissed, dpc, enum, hist>>

\* The value a gauge block sets: 0 replaces the result of a failed query.
GaugeInput(r) == IF r.st = "ok" THEN r.v ELSE 0

\* Lines 197-208: power limit.
ThreadPowerLimit(E) ==
  /\ tpc = "limit"
  /\ \E r \in Query(E.limits[didx]) :
       \E w \in WriteThrough("set", registry_[FamPowerLimit], gpu_power_limit_,
                             didx, Scale001(GaugeInput(r))) :
         /\ sample' = [sample EXCEPT ![didx].limit = r]
         /\ faults' = CountFault(r)
         /\ registry_' = [registry_ EXCEPT ![FamPowerLimit] = w.fam]
         /\ hist' = [hist EXCEPT !.ub = @ \/ w.ub]
         /\ tpc' = IF w.crash THEN "crashed" ELSE "usage"
  /\ UNCHANGED <<apivars, exposer_, ipc, vectors, nvml_thread_,
                 nvml_thread_exit_, dcnt, didx, last_energy, cycles,
                 energyReads, energyIncs, energyMissed, dpc, enum>>

\* Lines 210-220: power usage.
ThreadPowerUsage(E) ==
  /\ tpc = "usage"
  /\ \E r \in Query(E.usages[didx]) :
       \E w \in WriteThrough("set", registry_[FamPowerUsage], gpu_power_usage_,
                             didx, Scale001(GaugeInput(r))) :
         /\ sample' = [sample EXCEPT ![didx].usage = r]
         /\ faults' = CountFault(r)
         /\ registry_' = [registry_ EXCEPT ![FamPowerUsage] = w.fam]
         /\ hist' = [hist EXCEPT !.ub = @ \/ w.ub]
         /\ tpc' = IF w.crash THEN "crashed" ELSE "energy"
  /\ UNCHANGED <<apivars, exposer_, ipc, vectors, nvml_thread_,
                 nvml_thread_exit_, dcnt, didx, last_energy, cycles,
                 energyReads, energyIncs, energyMissed, dpc, enum>>

\* Lines 231-235: the delta passed to Increment, in milli-joules:
\* unsigned 64-bit subtraction from the baseline, where a stored 0 means
\* "no baseline yet" and is replaced by the reading itself.
EnergyDelta(last, energy) ==
  LET base == IF last = 0 THEN energy ELSE last
  IN (energy - base) % EnergyModulus

\* Lines 222-238: energy consumption.
ThreadEnergy(E) ==
  /\ tpc = "energy"
  /\ \E r \in Query(E.readings[cycles]) :
       /\ sample' = [sample EXCEPT ![didx].energy = r]
       /\ energyMissed' = [energyMissed EXCEPT ![didx] = (r.st = "fail")]
       /\ faults' = CountFault(r)
       /\ IF r.st = "ok"
            THEN LET delta == EnergyDelta(last_energy[didx], r.v)
                 IN \E w \in WriteThrough("inc", registry_[FamEnergy],
                                          gpu_energy_consumption_, didx,
                                          Scale001(delta)) :
                      /\ registry_' = [registry_ EXCEPT ![FamEnergy] = w.fam]
                      /\ hist' = [hist EXCEPT !.ub = @ \/ w.ub]
                      /\ energyReads' = [energyReads EXCEPT ![didx] = Append(@, r.v)]
                      /\ energyIncs' = [energyIncs EXCEPT ![didx] = Append(@, delta)]
                      /\ IF w.crash
                           THEN /\ tpc' = "crashed"
                                /\ last_energy' = last_energy
                           ELSE /\ tpc' = "util"
                                /\ last_energy' = [last_energy EXCEPT ![didx] = r.v]
            ELSE /\ tpc' = "util"
                 /\ UNCHANGED <<registry_, hist, energyReads, energyIncs, last_energy>>
  /\ UNCHANGED <<apivars, exposer_, ipc, vectors, nvml_thread_,
                 nvml_thread_exit_, dcnt, didx, cycles, dpc, enum>>

\* Lines 240-250: utilization, the last block of the device's body.
ThreadUtilization(E) ==
  /\ tpc = "util"
  /\ \E r \in Query(E.utils[didx]) :
       \E w \in WriteThrough("set", registry_[FamUtilization], gpu_utilization_,
                             didx, Scale01(GaugeInput(r))) :
         /\ sample' = [sample EXCEPT ![didx].util = r]
         /\ faults' = CountFault(r)
         /\ registry_' = [registry_ EXCEPT ![FamUtilization] = w.fam]
         /\ hist' = [hist EXCEPT !.ub = @ \/ w.ub]
         /\ IF w.crash
              THEN /\ tpc' = "crashed"
                   /\ didx' = didx
              ELSE NextDevice
  /\ UNCHANGED <<apivars, exposer_, ipc, vectors, nvml_thread_,
                 nvml_thread_exit_, dcnt, last_energy, cycles, energyReads,
                 energyIncs, energyMissed, dpc, enum>>

\* ---------------------------------------------------------------- ~Metrics

\* The thread is inside a sampling cycle: past the loop test, before the next.
MidCycle == tpc \in {"sleep", "handle", "limit", "usage", "energy", "util"}

\* Lines 99-100: with a thread, set the stop flag; without one, return.
DtorSignal ==
  /\ dpc = "idle"
  /\ \A c \in Callers : ipc[c] \in {"idle", "returned"}
  /\ IF nvml_thread_
       THEN /\ nvml_thread_exit_' = TRUE
            /\ dpc' = "joining"
            /\ hist' = [hist EXCEPT !.stopMid = MidCycle, !.stopCycle = cycles]
       ELSE /\ dpc' = "returned"
            /\ UNCHANGED <<nvml_thread_exit_, hist>>
  /\ UNCHANGED <<apivars, exposer_, ipc, registry_, vectors, nvml_thread_,
                 dcnt, tpc, didx, last_energy, cycles, faults, sample,
                 energyReads, energyIncs, energyMissed, enum>>

\* A destructor that does not wait for the thread.
ThreadExited_Detached == TRUE

\* The thread has run off the end of its lambda.
ThreadExited == tpc = "exit"

\* Line 101: join returns once the thread has exited.
DtorJoin ==
  /\ dpc = "joining"
  /\ ThreadExited
  /\ dpc' = "returned"
  /\ UNCHANGED <<apivars, exposer_, ipc, registry_, vectors, nvml_thread_,
                 threadvars, enum, hist>>

\* ------------------------------------------------------------ specifications

NextEnv(E) ==
  \/ \E c \in Callers : InitializeCheck(c, E)
  \/ \E c \in Callers : InitializeNvmlMetrics(c, E)
  \/ \E c \in Callers : InitializeExpose(c)
  \/ ThreadStart
  \/ ThreadCheck(E)
  \/ ThreadSleep
  \/ ThreadHandle
  \/ ThreadPowerLimit(E)
  \/ ThreadPowerUsage(E)
  \/ ThreadEnergy(E)
  \/ ThreadUtilization(E)
  \/ DtorSignal
  \/ DtorJoin

\* Sequential Initialize calls, up to MaxDevices devices.
Next == NextEnv(SpecEnv)
Spec == Init /\ [][Next]_vars

\* One device whose cumulative energy readings are free.
NextEnergy == NextEnv(EnergyEnv)
SpecEnergy == Init /\ [][NextEnergy]_vars

\* ------------------------------------------------------------------ claims

ThreadRunning == tpc \notin {"none", "start"}
SampledDevices == IF ThreadRunning THEN 0 .. dcnt - 1 ELSE {}
NonDecreasing(s) == \A k \in 2 .. Len(s) : s[k - 1] <= s[k]
\* The four vectors hold an entry for device d.
InRange(d) ==
  /\ d < Len(gpu_utilization_)
  /\ d < Len(gpu_power_usage_)
  /\ d < Len(gpu_power_limit_)
  /\ d < Len(gpu_energy_consumption_)
\* Value of device d's instance in a family, read through the family's vector.
ValueOf(f, vec, d) == registry_[f][vec[d + 1]]

\* C1: for a device whose successful energy readings r1..rn never decrease,
\* the first read passes no energy to the counter, read k > 1 passes exactly
\* rk - r(k-1) milli-joules (thousandths of a joule), lastObserved is the
\* latest reading, and the counter totals rn - r1; r1 = 0 included. Stated for
\* runs without an out-of-range vector access.
C1_EnergyAccounting ==
  \A d \in SampledDevices :
    (~hist.ub /\ NonDecreasing(energyReads[d]) /\ Len(energyReads[d]) > 0) =>
      LET r == energyReads[d]
          n == Len(r)
      IN /\ Len(energyIncs[d]) = n
         /\ \A k \in 1 .. n :
              energyIncs[d][k] = IF k = 1 THEN 0 ELSE r[k] - r[k - 1]
         /\ last_energy[d] = r[n]
         /\ InRange(d) =>
              ValueOf(FamEnergy, gpu_energy_consumption_, d) = Scale001(r[n] - r[1])

\* C2: a successful energy reading strictly below the stored lastObserved
\* passes zero to the counter (no negative and no wrapped-around delta) and
\* becomes the new lastObserved. Stated for runs without an out-of-range
\* vector access.
C2_DecreaseResetsBaseline ==
  \A d \in SampledDevices :
    ~hist.ub =>
      LET r == energyReads[d]
      IN /\ \A k \in 2 .. Len(r) : r[k] < r[k - 1] => energyIncs[d][k] = 0
         /\ Len(r) > 0 => last_energy[d] = r[Len(r)]

\* C3: ~Metrics returns only after the sampling thread has left its loop, also
\* when the stop flag was set in the middle of a cycle, and once it has
\* returned the thread makes no further step: no backend query, no write to a
\* metric instance.
C3_JoinSemantics ==
  /\ []((dpc = "returned" /\ nvml_thread_) => tpc = "exit")
  /\ [][dpc = "returned" =>
          /\ tpc' = tpc
          /\ registry_' = registry_
          /\ sample' = sample
          /\ faults' = faults
          /\ cycles' = cycles]_vars

\* Shutdown was requested inside a cycle, and has returned.
C3_Witness == dpc = "returned" /\ hist.stopMid /\ tpc = "exit" /\ cycles > 0

\* C4: once a first Initialize has bound the exposer, no later step (hence no
\* later Initialize call, whatever its port) re-runs enumeration, adds a
\* metric instance, creates a thread or binds the exposer again.
C4_InitializeIdempotent ==
  [][exposer_ # NoExposer =>
       /\ exposer_' = exposer_
       /\ vectors' = vectors
       /\ \A f \in GpuFamilies : DOMAIN registry_'[f] = DOMAIN registry_[f]
       /\ nvml_thread_' = nvml_thread_
       /\ enum' = enum
       /\ hist'.enumRuns = hist.enumRuns
       /\ hist'.threads = hist.threads
       /\ hist'.binds = hist.binds]_vars

\* A second call with another port has returned as a no-op.
C4_Witness ==
  /\ ipc["a"] = "returned"
  /\ ipc["b"] = "returned"
  /\ hist.noops = 1
  /\ exposer_ = PortOf("a")
  /\ PortOf("b") # PortOf("a")
  /\ hist.threads = 1
  /\ hist.enumRuns = 1

\* The label of the instance created for device d during enumeration.
LabelOf(d) == IF enum.uuid[d] THEN BackendUUID(d) ELSE UnknownUUID
Vectors == {gpu_utilization_, gpu_power_usage_, gpu_power_limit_,
            gpu_energy_consumption_}

\* C5: once the thread exists, each of the four vectors has exactly one entry
\* per device index the loop iterates over, entry i being the instance created
\* for device i, for every outcome of enumeration; and the loop never indexes
\* a vector past its end.
C5_IndexAlignment ==
  nvml_thread_ =>
    /\ \A vec \in Vectors :
         /\ Len(vec) = dcnt
         /\ \A i \in 0 .. dcnt - 1 : enum.handle[i] /\ vec[i + 1] = LabelOf(i)
    /\ ~hist.ub

\* C6: no two entries of a vector (two distinct devices) point to the same
\* metric instance.
C6_InstancePerDevice ==
  \A vec \in Vectors :
    \A i, j \in 1 .. Len(vec) : i # j => vec[i] # vec[j]

\* The devices that obtained a handle during enumeration: the device catalog.
Catalog == {d \in DOMAIN enum.handle : enum.handle[d]}

\* C7: a sampling thread is created only if the catalog is non-empty.
C7_LoopNeedsCatalog == hist.threads > 0 => Catalog # {}

\* C8: when nvmlInit or nvmlDeviceGetCount fails, no GPU metric instance
\* exists, no thread is created, and the Initialize call goes on to bind the
\* exposer to its port.
C8_BackendFailureDegrades ==
  (enum.ran /\ ~(enum.init /\ enum.count)) =>
    /\ \A vec \in Vectors : vec = <<>>
    /\ \A f \in GpuFamilies : DOMAIN registry_[f] = {}
    /\ ~nvml_thread_
    /\ tpc = "none"
    /\ hist.threads = 0
    /\ ipc[enum.by] \in {"expose", "returned"}
    /\ ipc[enum.by] = "returned" => (exposer_ = PortOf(enum.by) /\ hist.binds = 1)

\* The device count query failed and the exposer is bound all the same.
C8_Witness ==
  /\ enum.ran
  /\ enum.init
  /\ ~enum.count
  /\ exposer_ # NoExposer
  /\ ipc[enum.by] = "returned"

\* Position (from 1) of catalog device d in enumeration order.
Rank(d) == Cardinality({e \in Catalog : e <= d})

\* C9: after a successful enumeration every device that obtained a handle has
\* an entry in each vector, in index order, labelled with its backend UUID or
\* with "unknown" if UUID resolution failed, and that instance exists in each
\* of the four families.
C9_UuidFailureKeepsDevice ==
  (enum.ran /\ enum.init /\ enum.count) =>
    /\ \A vec \in Vectors :
         /\ Len(vec) = Cardinality(Catalog)
         /\ \A d \in Catalog : vec[Rank(d)] = LabelOf(d)
    /\ \A d \in Catalog :
         /\ LabelOf(d) = UnknownUUID <=> ~enum.uuid[d]
         /\ \A f \in GpuFamilies : LabelOf(d) \in DOMAIN registry_[f]
    /\ Cardinality({d \in Catalog : ~enum.uuid[d]}) <= 1 =>
         \A f \in GpuFamilies :
           Cardinality(DOMAIN registry_[f]) = Cardinality(Catalog)

\* Two devices enumerated, one of them without a UUID, both with instances.
C9_Witness ==
  /\ enum.ran
  /\ enum.n = MaxDevices
  /\ Cardinality(Catalog) = MaxDevices
  /\ Cardinality({d \in Catalog : ~enum.uuid[d]}) = 1
  /\ Len(gpu_energy_consumption_) = MaxDevices
  /\ Cardinality(DOMAIN registry_[FamEnergy]) = MaxDevices

RECURSIVE SumSeq(_)
SumSeq(s) == IF s = <<>> THEN 0 ELSE Head(s) + SumSeq(Tail(s))

\* What a finished cycle leaves for device d when its handle was obtained:
\* every metric was queried, each gauge holds its own result (0 for a failed
\* query) and the counter holds exactly the deltas of the successful reads.
IsolatedSample(d) ==
  /\ sample[d].limit.st # "none"
  /\ sample[d].usage.st # "none"
  /\ sample[d].energy.st # "none"
  /\ sample[d].util.st # "none"
  /\ InRange(d)
  /\ ValueOf(FamPowerLimit, gpu_power_limit_, d)
       = Scale001(GaugeInput(sample[d].limit))
  /\ ValueOf(FamPowerUsage, gpu_power_usage_, d)
       = Scale001(GaugeInput(sample[d].usage))
  /\ ValueOf(FamUtilization, gpu_utilization_, d)
       = Scale01(GaugeInput(sample[d].util))
  /\ ValueOf(FamEnergy, gpu_energy_consumption_, d)
       = Scale001(SumSeq(energyIncs[d]))

CycleFinished == tpc = "check" /\ cycles > 0

\* A power-limit, power-usage, energy or utilization query of the current
\* cycle has failed.
QueryFailed ==
  \E d \in SampledDevices :
    \E m \in {"limit", "usage", "energy", "util"} : sample[d][m].st = "fail"

\* C10: a cycle in which a metric query failed is not cut short, and at its
\* end every device whose handle was obtained has had all four metrics queried
\* and written from its own results: 0 for a failed gauge query, no update
\* for a failed energy query.
C10_FailureIsolation ==
  QueryFailed =>
    /\ tpc # "crashed"
    /\ CycleFinished =>
         \A d \in 0 .. dcnt - 1 : sample[d].handle.st = "ok" => IsolatedSample(d)

\* The same with the enumeration that C5 and C6 assume: every device obtained
\* a handle and no two devices carry the same label.
FailureIsolationWhenAligned ==
  (/\ \A d \in DOMAIN enum.handle : enum.handle[d]
   /\ Cardinality({d \in DOMAIN enum.uuid : ~enum.uuid[d]}) <= 1)
    => C10_FailureIsolation

\* The sampling loop is Running: the thread is somewhere in its while loop.
LoopRunning ==
  tpc \in {"check", "sleep", "handle", "limit", "usage", "energy", "util"}

\* Every device obtained a handle during enumeration.
EnumerationAligned == \A d \in DOMAIN enum.handle : enum.handle[d]

\* C11: whatever backend calls fail, the loop leaves Running only by seeing the
\* stop flag at its loop test: every step out of Running is the exit taken
\* with the flag set.
C11_FailuresNeverHalt ==
  [][(LoopRunning /\ ~LoopRunning') => (nvml_thread_exit_ /\ tpc' = "exit")]_vars

\* The same when no handle lookup failed during enumeration (no out-of-range
\* access, see C5): failures of the queries inside the cycles never end the loop.
FailuresNeverHaltWhenAligned ==
  [][(EnumerationAligned /\ LoopRunning /\ ~LoopRunning')
       => (nvml_thread_exit_ /\ tpc' = "exit")]_vars

\* ------------------------------------------------------- UUIDForCudaDevice

\* Calls of UUIDForCudaDevice one caller makes, with the same string.
MaxResolveCalls == 3

\* Error codes the CUDA runtime and NVML may return (anything but success).
CudaErrors == {101}
NvmlErrors == {1, 6}

mainvars == <<exposer_, ipc, registry_, vectors, nvml_thread_, threadvars, dpc,
              enum, hist>>

\* What the caller receives from a failing call: `return false` (lines 269,
\* 276, 283). The bool carries no error code; the code goes to LOG_ERROR.
ErrorReturn(code) == [ok |-> FALSE, code |-> NoCode]
SuccessReturn == [ok |-> TRUE, code |-> NoCode]

\* A failing step that clears the caller's string.
UuidOutput_Cleared(before, ok, dev) == IF ok THEN BackendUUID(dev) ELSE ""

\* The caller's string after the last step: assigned at line 286 only.
UuidOutput(before, ok, dev) == IF ok THEN BackendUUID(dev) ELSE before

\* Lines 260-263: a call with compute device index dev.
ResolveCall ==
  /\ resolve.pc = "idle"
  /\ resolve.calls < MaxResolveCalls
  /\ \E dev \in 0 .. MaxDevices - 1 :
       resolve' = [resolve EXCEPT !.pc = "bus", !.dev = dev, !.before = resolve.out,
                                  !.failed = NoCode, !.log = NoCode,
                                  !.calls = @ + 1]
  /\ UNCHANGED <<mainvars, svc>>

\* Lines 264-270: cudaDeviceGetPCIBusId.
ResolveBusId ==
  /\ resolve.pc = "bus"
  /\ \E r \in {NoCode} \cup CudaErrors :
       resolve' = IF r = NoCode
                    THEN [resolve EXCEPT !.pc = "handle"]
                    ELSE [resolve EXCEPT !.pc = "idle", !.log = r, !.failed = r,
                                         !.ret = ErrorReturn(r)]
  /\ UNCHANGED <<mainvars, svc>>

\* Lines 272-277: nvmlDeviceGetHandleByPciBusId.
ResolveHandle ==
  /\ resolve.pc = "handle"
  /\ \E r \in {NoCode} \cup NvmlErrors :
       resolve' = IF r = NoCode
                    THEN [resolve EXCEPT !.pc = "uuid"]
                    ELSE [resolve EXCEPT !.pc = "idle", !.log = r, !.failed = r,
                                         !.ret = ErrorReturn(r)]
  /\ UNCHANGED <<mainvars, svc>>

\* Lines 279-287: nvmlDeviceGetUUID and the assignment to *uuid.
ResolveUuid ==
  /\ resolve.pc = "uuid"
  /\ \E r \in {NoCode} \cup NvmlErrors :
       resolve' = [resolve EXCEPT
                     !.pc = "idle",
                     !.log = r,
                     !.failed = r,
                     !.out = UuidOutput(resolve.out, r = NoCode, resolve.dev),
                     !.ret = IF r = NoCode THEN SuccessReturn ELSE ErrorReturn(r)]
  /\ UNCHANGED <<mainvars, svc>>

NextResolve == ResolveCall \/ ResolveBusId \/ ResolveHandle \/ ResolveUuid
SpecResolve == Init /\ [][NextResolve]_vars

ResolveReturned == resolve.pc = "idle" /\ resolve.calls > 0

\* C12 as stated: a call returns success with the device's UUID exactly when
\* all three backend steps succeeded; a failing call reports failure to the
\* caller together with the failing step's error code and leaves the caller's
\* string unchanged.
C12_ResolutionReportsCode ==
  ResolveReturned =>
    /\ resolve.ret.ok <=> resolve.failed = NoCode
    /\ resolve.ret.ok => resolve.out = BackendUUID(resolve.dev)
    /\ ~resolve.ret.ok =>
         /\ resolve.out = resolve.before
         /\ resolve.ret.code = resolve.failed

\* C12 amended: as above, but a failing call only returns false; the failing
\* step's error code is written to the log and is not part of what the caller
\* receives.
C12_ResolutionReturnsFalse ==
  ResolveReturned =>
    /\ resolve.ret.ok <=> resolve.failed = NoCode
    /\ resolve.ret.ok => resolve.out = BackendUUID(resolve.dev)
    /\ ~resolve.ret.ok =>
         /\ resolve.out = resolve.before
         /\ resolve.log = resolve.failed
         /\ resolve.ret.code = NoCode

\* A call failed at its last step with a string that held an earlier UUID.
C12_Witness ==
  /\ ResolveReturned
  /\ ~resolve.ret.ok
  /\ resolve.failed \in NvmlErrors
  /\ resolve.before # ""
  /\ resolve.out = resolve.before

\* ------------------------------------------------------ service counters

\* Increment calls each writer makes, and the deltas it may pass (d >= 0).
MaxIncrements == 2
Deltas == 0 .. 2

\* An increment that adds to the value the writer saw when it was called.
CounterAdd_Stale(current, seen, d) == seen + d

\* Increment(c, d): an atomic read-modify-write of the counter's value.
CounterAdd(current, seen, d) == current + d

\* A request-handling context calls Increment(c, d).
IncrementCall(w) ==
  /\ svc.pc[w] = "idle"
  /\ svc.calls[w] < MaxIncrements
  /\ \E d \in Deltas :
       svc' = [svc EXCEPT !.pc[w] = "apply", !.d[w] = d, !.seen[w] = svc.value,
                          !.calls[w] = @ + 1, !.total = @ + d]
  /\ UNCHANGED <<mainvars, resolve>>

\* The call takes effect.
IncrementApply(w) ==
  /\ svc.pc[w] = "apply"
  /\ svc' = [svc EXCEPT !.pc[w] = "idle",
                        !.value = CounterAdd(svc.value, svc.seen[w], svc.d[w]),
                        !.applied = Append(@, svc.d[w])]
  /\ UNCHANGED <<mainvars, resolve>>

\* The exposition path reads the counter.
Snapshot ==
  /\ svc' = [svc EXCEPT !.snap = svc.value, !.snapAt = Len(svc.applied)]
  /\ UNCHANGED <<mainvars, resolve>>

NextCounter == (\E w \in Writers : IncrementCall(w) \/ IncrementApply(w)) \/ Snapshot
SpecCounter == Init /\ [][NextCounter]_vars

IncrementsCompleted ==
  \A w \in Writers : svc.pc[w] = "idle" /\ svc.calls[w] = MaxIncrements

\* C13: under any interleaving of Increment calls (d >= 0) of several writers
\* and of Snapshot reads, the counter never decreases, every snapshot equals
\* the sum of a prefix of the applied deltas, and once every increment has
\* completed the counter equals the total of all deltas.
C13_NoLostUpdates ==
  /\ [](/\ svc.snapAt <= Len(svc.applied)
        /\ svc.snap = SumSeq(SubSeq(svc.applied, 1, svc.snapAt))
        /\ svc.value = SumSeq(svc.applied)
        /\ IncrementsCompleted => svc.value = svc.total)
  /\ [][svc'.value >= svc.value]_vars

\* Both writers had their last increment in flight at once, everything has
\* completed with a non-zero total, and a snapshot was read in between.
C13_Witness ==
  /\ IncrementsCompleted
  /\ svc.total > 2
  /\ svc.seen["w1"] = svc.seen["w2"]
  /\ svc.d["w1"] > 0 /\ svc.d["w2"] > 0
  /\ svc.snapAt \in 1 .. Len(svc.applied) - 1
  /\ svc.snap > 0

\* ------------------------------------------- overlapping Initialize calls

\* Two Initialize calls that may overlap in time (no lock is taken around
\* the test of exposer_ at line 109 and its assignment at line 117).
OverlapEnv == [SpecEnv EXCEPT !.overlap = TRUE, !.maxCycles = 1]
NextOverlap == NextEnv(OverlapEnv)
SpecOverlap == Init /\ [][NextOverlap]_vars

\* C14: under any interleaving of two Initialize calls, enumeration runs at
\* most once, no vector holds more instances than there are devices, at most
\* one sampling thread is created and the exposer is bound at most once.
C14_InitializedAtMostOnce ==
  /\ hist.enumRuns <= 1
  /\ hist.threads <= 1
  /\ hist.binds <= 1
  /\ \A v \in Vectors : Len(v) <= dcnt

\* ---------------------------------------------------------------- lifecycle

\* The lifecycle state of the sampling thread: no thread (lines 179-181 not
\* run), thread running with the flag clear, flag set by ~Metrics (line 100)
\* with the thread still in its lambda, and thread returned from its lambda.
\* A thread killed by an out-of-range write is in none of the four.
Lifecycle ==
  CASE tpc = "none" -> "NotStarted"
    [] tpc = "crashed" -> "Aborted"
    [] tpc = "exit" -> "Stopped"
    [] nvml_thread_exit_ -> "StopRequested"
    [] OTHER -> "Running"

\* C15: no step goes from StopRequested or Stopped back to Running or
\* NotStarted, the stop flag once set is never cleared, and a step into
\* Stopped starts in StopRequested.
C15_LifecycleForward ==
  [][/\ Lifecycle \in {"StopRequested", "Stopped"}
          => Lifecycle' \notin {"NotStarted", "Running"}
     /\ Lifecycle = "Running" => Lifecycle' # "NotStarted"
     /\ nvml_thread_exit_ => nvml_thread_exit_'
     /\ (Lifecycle' = "Stopped" /\ Lifecycle # "Stopped")
          => Lifecycle = "StopRequested"]_vars

\* The thread ran a whole cycle, was asked to stop between two cycles, and
\* has stopped.
C15_Witness ==
  /\ Lifecycle = "Stopped"
  /\ nvml_thread_exit_
  /\ cycles > 0
  /\ ~hist.stopMid

\* ------------------------------------------------------------- cancellation

\* Devices the backend counts where termination is checked.
MaxLiveDevices == 1

LiveEnv == [SpecEnv EXCEPT !.counts = 0 .. MaxLiveDevices]

\* A step of the sampling thread. Every backend call and the sleep return, so
\* the thread is not stopped forever at a step it can take.
ThreadStep ==
  \/ ThreadStart
  \/ ThreadCheck(LiveEnv)
  \/ ThreadSleep
  \/ ThreadHandle
  \/ ThreadPowerLimit(LiveEnv)
  \/ ThreadPowerUsage(LiveEnv)
  \/ ThreadEnergy(LiveEnv)
  \/ ThreadUtilization(LiveEnv)

NextLive == NextEnv(LiveEnv)
SpecLive == Init /\ [][NextLive]_vars /\ WF_vars(ThreadStep)

\* The thread is in its lambda no longer: it returned, or it was killed.
ThreadEnded == tpc \in {"exit", "crashed"}

\* C16: once the stop flag is set while the loop runs, the thread eventually
\* ends, and the loop starts at most one sampling cycle after the moment the
\* flag was set.
C16_CancellationTerminates ==
  /\ [](nvml_thread_exit_ => cycles <= hist.stopCycle + 1)
  /\ (nvml_thread_exit_ /\ LoopRunning) ~> ThreadEnded

\* The flag was set during the sleep, one more cycle ran, and the thread
\* returned.
C16_Witness ==
  /\ nvml_thread_exit_
  /\ tpc = "exit"
  /\ cycles = hist.stopCycle + 1

\* ---------------------------------------------------------- unit conversion

\* The handle lookup and the four queries of device d succeeded in the
\* current cycle.
AllSucceeded(d) ==
  /\ sample[d].handle.st = "ok"
  /\ \A m \in {"limit", "usage", "energy", "util"} : sample[d][m].st = "ok"

\* No two devices carry the same label.
LabelsDistinct == Cardinality({d \in DOMAIN enum.uuid : ~enum.uuid[d]}) <= 1

\* C17: at the end of a cycle in which the handle and all queries of device d
\* succeeded, d's power gauges hold the backend's milliwatts divided by 1000
\* and its utilization gauge the backend's percentage divided by 100 (gauge
\* values are in thousandths: value / 1000 = mW / 1000, value / 1000 = % / 100).
C17_UnitConversion ==
  CycleFinished =>
    \A d \in 0 .. dcnt - 1 :
      AllSucceeded(d) =>
        /\ InRange(d)
        /\ ValueOf(FamPowerLimit, gpu_power_limit_, d) = sample[d].limit.v
        /\ ValueOf(FamPowerUsage, gpu_power_usage_, d) = sample[d].usage.v
        /\ ValueOf(FamUtilization, gpu_utilization_, d) * 100
             = sample[d].util.v * 1000
        /\ sample[d].util.v \in 0 .. 100

\* The same with the enumeration that C5 and C6 assume.
UnitConversionWhenAligned ==
  (EnumerationAligned /\ LabelsDistinct) => C17_UnitConversion

\* A cycle has finished in which every query of two devices succeeded.
UnitConversionReached ==
  /\ CycleFinished
  /\ EnumerationAligned /\ LabelsDistinct
  /\ dcnt = 2
  /\ \A d \in 0 .. dcnt - 1 : AllSucceeded(d)

\* ------------------------------------------------------ failed energy query

\* The step is the energy block of device didx, ended without an
\* out-of-range vector access.
EnergyStep == tpc = "energy" /\ tpc' = "util" /\ ~hist'.ub /\ InRange(didx)

\* The last successful energy reading of device d.
LastObserved(d) == energyReads[d][Len(energyReads[d])]

\* What the claim says an energy block does to device didx: a failed query
\* leaves the counter and lastObserved unchanged; the first successful read
\* after a failed one (the hardware counter not having decreased) adds the
\* difference to the last successfully observed reading, in joules (counter
\* values are in thousandths), and becomes lastObserved.
NoEnergyLost ==
  LET d == didx
      r == sample'[d].energy
      before == ValueOf(FamEnergy, gpu_energy_consumption_, d)
      after == registry_'[FamEnergy][gpu_energy_consumption_'[d + 1]]
  IN /\ r.st = "fail" =>
          /\ after = before
          /\ last_energy'[d] = last_energy[d]
     /\ (/\ r.st = "ok"
         /\ energyMissed[d]
         /\ energyReads[d] # <<>>
         /\ r.v >= LastObserved(d))
          => /\ after = before + (r.v - LastObserved(d))
             /\ last_energy'[d] = r.v

\* C18: a failed energy query loses no energy: it changes neither the counter
\* nor lastObserved, and the next successful read adds the whole difference
\* to the last successfully observed reading.
C18_FailedQueryLosesNoEnergy == [][EnergyStep => NoEnergyLost]_vars

\* The same where the last successfully observed reading is not 0, the value
\* C1's baseline test takes for "no reading yet".
NoEnergyLostWhenBaselineNonzero ==
  [][(EnergyStep /\ energyReads[didx] # <<>> /\ LastObserved(didx) # 0)
       => NoEnergyLost]_vars

\* ---------------------------------------------------- failed handle lookup

\* The values of device d's four instances, read through the vectors.
InstanceValues(d) ==
  <<ValueOf(FamUtilization, gpu_utilization_, d),
    ValueOf(FamPowerUsage, gpu_power_usage_, d),
    ValueOf(FamPowerLimit, gpu_power_limit_, d),
    ValueOf(FamEnergy, gpu_energy_consumption_, d)>>

\* What the claim says of a step taken in a cycle after device d's handle
\* lookup failed: the step is not the loop's last, it changes none of d's
\* four instances nor d's lastObserved, and when it ends the cycle every
\* device whose handle was obtained has had its four metrics queried.
HandleFailureSkips(d) ==
  /\ tpc' # "crashed"
  /\ InRange(d) => InstanceValues(d)' = InstanceValues(d)
  /\ last_energy'[d] = last_energy[d]
  /\ tpc' = "check" =>
       \A o \in DOMAIN sample \ {d} :
         sample'[o].handle.st = "ok" =>
           \A m \in {"limit", "usage", "energy", "util"} : sample'[o][m].st # "none"

\* C19: when the handle lookup of device d fails in a cycle, the rest of that
\* cycle leaves d's four instances and lastObserved unchanged, and the other
\* devices are still sampled.
C19_HandleFailureSkipsDevice ==
  [][\A d \in DOMAIN sample :
       (/\ LoopRunning
        /\ sample[d].handle.st = "fail"
        /\ sample'[d].handle.st = "fail")
         => HandleFailureSkips(d)]_vars

\* The same with the enumeration that C5 and C6 assume.
HandleFailureSkipsWhenAligned ==
  [][\A d \in DOMAIN sample :
       (/\ EnumerationAligned /\ LabelsDistinct
        /\ LoopRunning
        /\ sample[d].handle.st = "fail"
        /\ sample'[d].handle.st = "fail")
         => HandleFailureSkips(d)]_vars
====
